---------------------------- MODULE Spec2Model ----------------------------
(***************************************************************************)
(* A model of zlint's lint registry (lint/registry.go: linterImpl, its     *)
(* register, byName, Names, Sources and Filter operations).                *)
(*                                                                         *)
(* Strings are sequences of byte values so that sort.Strings and           *)
(* strings.TrimSpace can be computed the way the Go code computes them.    *)
(* A *Lint pointer is an index into LintPool (0 is the nil pointer); a     *)
(* *linterImpl pointer is an index into regs.                              *)
(***************************************************************************)
EXTENDS Naturals, Sequences, FiniteSets

(***************************************************************************)
(* Bounds of the model.                                                    *)
(***************************************************************************)
\* how many descriptors of LintPool callers may pass to register
NLints == 6
\* how many linterImpl objects may exist (the default one plus Filter's)
MaxRegs == 3
\* how often one descriptor's Initialize() hook may be invoked
MaxInit == 1
\* longest IncludeNames / ExcludeNames / IncludeSources / ExcludeSources list
MaxListLen == 1
\* number of goroutines calling register concurrently
NProcs == 2
\* the largest reading of the clock
MaxTime == 1

(***************************************************************************)
(* Strings.                                                                *)
(***************************************************************************)
SP == <<32>>
StrA == <<97>>
StrB == <<98>>
StrC == <<99>>
StrSpA == <<32, 97>>
StrAB == <<97, 98>>
StrEmpty == << >>

\* unicode.IsSpace restricted to the Latin-1 range
WhiteSpace == {9, 10, 11, 12, 13, 32, 133, 160}

RECURSIVE StrLess(_, _)
\* Go's < on strings: bytewise lexicographic order.
StrLess(s, t) ==
    IF t = << >> THEN FALSE
    ELSE IF s = << >> THEN TRUE
    ELSE IF Head(s) < Head(t) THEN TRUE
    ELSE IF Head(s) > Head(t) THEN FALSE
    ELSE StrLess(Tail(s), Tail(t))

RECURSIVE TrimLeft(_)
TrimLeft(s) ==
    IF s # << >> /\ Head(s) \in WhiteSpace THEN TrimLeft(Tail(s)) ELSE s

RECURSIVE TrimRight(_)
TrimRight(s) ==
    IF s # << >> /\ s[Len(s)] \in WhiteSpace
    THEN TrimRight(SubSeq(s, 1, Len(s) - 1))
    ELSE s

\* strings.TrimSpace
TrimSpace(s) == TrimRight(TrimLeft(s))

RECURSIVE Contains(_, _)
\* regexp.MatchString for a pattern made of literal characters only:
\* the pattern occurs somewhere in the name.
Contains(s, p) ==
    IF Len(p) > Len(s) THEN FALSE
    ELSE IF SubSeq(s, 1, Len(p)) = p THEN TRUE
    ELSE Contains(Tail(s), p)

RECURSIVE InsertSorted(_, _)
InsertSorted(sorted, x) ==
    IF sorted = << >> THEN <<x>>
    ELSE IF StrLess(x, Head(sorted)) THEN <<x>> \o sorted
    ELSE <<Head(sorted)>> \o InsertSorted(Tail(sorted), x)

RECURSIVE SortStrings(_)
\* sort.Strings: the ascending rearrangement of the slice (duplicates kept).
SortStrings(s) ==
    IF s = << >> THEN << >>
    ELSE InsertSorted(SortStrings(Tail(s)), Head(s))

Range(s) == {s[i] : i \in DOMAIN s}

\* all sequences over S of length at most n
SeqsUpTo(S, n) == UNION {[1..k -> S] : k \in 0..n}


(***************************************************************************)
(* Lint descriptors (type Lint) and lint sources.                          *)
(***************************************************************************)
Sources == {"CABF_BR", "RFC5280"}

\* the nil *Lint
NilLint == 0
\* a Lint whose Lint field (the LintInterface) is nil / is set
NilImpl == "nil"
Impl == "impl"

\* The descriptors callers pass to register; a *Lint is an index into
\* this table.  Descriptors are immutable, so the table is fixed.
LintPool ==
    << [Name |-> StrB,     Source |-> "CABF_BR", Lint |-> Impl],
       [Name |-> StrA,     Source |-> "RFC5280", Lint |-> Impl],
       [Name |-> StrA,     Source |-> "CABF_BR", Lint |-> Impl],
       [Name |-> StrSpA,   Source |-> "CABF_BR", Lint |-> Impl],
       [Name |-> StrEmpty, Source |-> "CABF_BR", Lint |-> Impl],
       [Name |-> StrB,     Source |-> "RFC5280", Lint |-> NilImpl],
       [Name |-> StrAB,    Source |-> "RFC5280", Lint |-> Impl],
       [Name |-> StrC,     Source |-> "CABF_BR", Lint |-> Impl] >>

Lints == 1..NLints
LintArgs == {NilLint} \cup Lints

NameOf(l) == LintPool[l].Name
SourceOf(l) == LintPool[l].Source

(***************************************************************************)
(* Errors.                                                                 *)
(***************************************************************************)
NoError == "nil"
errNilLint == "errNilLint"
errNilLintPtr == "errNilLintPtr"
errEmptyName == "errEmptyName"
errDuplicateName == "errDuplicateName"
errBadInit == "errBadInit"
errUnknownLintName == "unknown lint name"
errNameFilterConflict == "NameFilter cannot be used with ExcludeNames or IncludeNames"
\* lint.Source on the nil *Lint returned by byName
panicNilDeref == "panic: nil pointer dereference"

(***************************************************************************)
(* linterImpl: the three indexes.  A Go map is a function on the set of    *)
(* its keys; a slice is a sequence.                                        *)
(***************************************************************************)
newLinter ==
    [lintsByName |-> << >>, lintNames |-> << >>, lintsBySource |-> << >>]

MapPut(m, k, v) == [x \in DOMAIN m \cup {k} |-> IF x = k THEN v ELSE m[x]]

\* linterImpl.byName: the *Lint registered under name, or nil
byName(linter, name) ==
    IF name \in DOMAIN linter.lintsByName
    THEN linter.lintsByName[name]
    ELSE NilLint

\* linterImpl.Names
Names(linter) == linter.lintNames

\* linterImpl.Sources (the key set; the Go result is in no fixed order)
SourcesOf(linter) == DOMAIN linter.lintsBySource

\* the statements register runs under the write lock, one by one
appendName(linter, l) ==
    [linter EXCEPT !.lintNames = Append(@, NameOf(l))]

putByName(linter, l) ==
    [linter EXCEPT !.lintsByName = MapPut(@, NameOf(l), l)]

appendBySource(linter, l) ==
    [linter EXCEPT !.lintsBySource =
        MapPut(@, SourceOf(l),
               IF SourceOf(l) \in DOMAIN @
               THEN Append(@[SourceOf(l)], l)
               ELSE <<l>>)]

\* register without its sort.Strings call
sortNamesSkipped(linter) == linter

sortNames(linter) ==
    [linter EXCEPT !.lintNames = SortStrings(@)]

\* the whole critical section of register
registerLocked(linter, l) ==
    sortNames(appendBySource(putByName(appendName(linter, l), l), l))

\* register without its duplicate test
neverRegistered(linter, l) == FALSE

\* the duplicate test of register
alreadyRegistered(linter, l) == byName(linter, NameOf(l)) # NilLint

\* register calling the Initialize() hook before it looks at the name
registerInitializesFirst(linter, l, initialize, initFails) ==
    IF l = NilLint
    THEN [linter |-> linter, err |-> errNilLint, initCalled |-> FALSE]
    ELSE IF LintPool[l].Lint = NilImpl
    THEN [linter |-> linter, err |-> errNilLintPtr, initCalled |-> FALSE]
    ELSE IF initialize /\ initFails
    THEN [linter |-> linter, err |-> errBadInit, initCalled |-> TRUE]
    ELSE IF NameOf(l) = StrEmpty
    THEN [linter |-> linter, err |-> errEmptyName, initCalled |-> initialize]
    ELSE IF alreadyRegistered(linter, l)
    THEN [linter |-> linter, err |-> errDuplicateName,
          initCalled |-> initialize]
    ELSE [linter |-> registerLocked(linter, l), err |-> NoError,
          initCalled |-> initialize]

\* register going on to its critical section after Initialize() failed
registerKeepsFailedInit(linter, l, initialize, initFails) ==
    IF l = NilLint
    THEN [linter |-> linter, err |-> errNilLint, initCalled |-> FALSE]
    ELSE IF LintPool[l].Lint = NilImpl
    THEN [linter |-> linter, err |-> errNilLintPtr, initCalled |-> FALSE]
    ELSE IF NameOf(l) = StrEmpty
    THEN [linter |-> linter, err |-> errEmptyName, initCalled |-> FALSE]
    ELSE IF alreadyRegistered(linter, l)
    THEN [linter |-> linter, err |-> errDuplicateName, initCalled |-> FALSE]
    ELSE [linter |-> registerLocked(linter, l),
          err |-> IF initialize /\ initFails THEN errBadInit ELSE NoError,
          initCalled |-> initialize]

\* linterImpl.register, run without interference.  initFails says
\* whether l.Lint.Initialize() returns an error if it is called.
\* initCalled reports whether the hook was invoked.
register(linter, l, initialize, initFails) ==
    IF l = NilLint
    THEN [linter |-> linter, err |-> errNilLint, initCalled |-> FALSE]
    ELSE IF LintPool[l].Lint = NilImpl
    THEN [linter |-> linter, err |-> errNilLintPtr, initCalled |-> FALSE]
    ELSE IF NameOf(l) = StrEmpty
    THEN [linter |-> linter, err |-> errEmptyName, initCalled |-> FALSE]
    ELSE IF alreadyRegistered(linter, l)
    THEN [linter |-> linter, err |-> errDuplicateName, initCalled |-> FALSE]
    ELSE IF initialize /\ initFails
    THEN [linter |-> linter, err |-> errBadInit, initCalled |-> TRUE]
    ELSE [linter |-> registerLocked(linter, l), err |-> NoError,
          initCalled |-> initialize]

(***************************************************************************)
(* FilterOptions and Filter.                                               *)
(***************************************************************************)
\* NameFilter is a *regexp.Regexp: << >> is nil, <<p>> points to the
\* regular expression that matches the literal text p anywhere.
NilRegexp == << >>
Patterns == {StrA}
\* strings callers put in IncludeNames / ExcludeNames
ListNames == {StrA, StrSpA, StrC}

FilterOptions ==
    [NameFilter : {NilRegexp} \cup {<<p>> : p \in Patterns},
     IncludeNames : SeqsUpTo(ListNames, MaxListLen),
     ExcludeNames : SeqsUpTo(ListNames, MaxListLen),
     IncludeSources : SeqsUpTo(Sources, MaxListLen),
     ExcludeSources : SeqsUpTo(Sources, MaxListLen)]

NoOptions ==
    [NameFilter |-> NilRegexp, IncludeNames |-> << >>, ExcludeNames |-> << >>,
     IncludeSources |-> << >>, ExcludeSources |-> << >>]

\* FilterOptions.Empty
Empty(opts) ==
    /\ opts.NameFilter = NilRegexp
    /\ Len(opts.IncludeNames) = 0
    /\ Len(opts.ExcludeNames) = 0
    /\ Len(opts.IncludeSources) = 0
    /\ Len(opts.ExcludeSources) = 0

\* Regexp.MatchString
MatchString(re, name) == Contains(name, re[1])

\* lintNamesToMap without its test for unknown names
lintNamesToMapUnchecked(linter, names) ==
    [map |-> {TrimSpace(names[i]) : i \in DOMAIN names}, err |-> NoError]

\* linterImpl.lintNamesToMap.  The map[string]bool only ever holds true,
\* so it is the set of its keys; the nil map is the empty set (a non-nil
\* result is never empty).
lintNamesToMap(linter, names) ==
    IF Len(names) = 0
    THEN [map |-> {}, err |-> NoError]
    ELSE IF \E i \in DOMAIN names : byName(linter, TrimSpace(names[i])) = NilLint
    THEN [map |-> {}, err |-> errUnknownLintName]
    ELSE [map |-> {TrimSpace(names[i]) : i \in DOMAIN names}, err |-> NoError]

\* sourceListToMap, as the set of the map's keys (nil is the empty set)
sourceListToMap(sources) == Range(sources)

\* the loop body with the name-include test put first, so that a listed
\* name is kept whatever its source
keepLintIncludeWins(f, name, lint) ==
    \/ (f.nameIncludes # {} /\ name \in f.nameIncludes)
    \/ /\ ~(f.sourceExcludes # {} /\ SourceOf(lint) \in f.sourceExcludes)
       /\ ~(f.sourceIncludes # {} /\ SourceOf(lint) \notin f.sourceIncludes)
       /\ ~(f.opts.NameFilter # NilRegexp
            /\ ~MatchString(f.opts.NameFilter, name))
       /\ ~(f.nameExcludes # {} /\ name \in f.nameExcludes)
       /\ ~(f.nameIncludes # {} /\ name \notin f.nameIncludes)

\* the five tests of Filter's loop body: TRUE when none of them
\* says continue.  f holds Filter's locals: opts and the four maps.
keepLint(f, name, lint) ==
    /\ ~(f.sourceExcludes # {} /\ SourceOf(lint) \in f.sourceExcludes)
    /\ ~(f.sourceIncludes # {} /\ SourceOf(lint) \notin f.sourceIncludes)
    /\ ~(f.opts.NameFilter # NilRegexp
         /\ ~MatchString(f.opts.NameFilter, name))
    /\ ~(f.nameExcludes # {} /\ name \in f.nameExcludes)
    /\ ~(f.nameIncludes # {} /\ name \notin f.nameIncludes)

\* filteredLinter.register(lint, true): Initialize() run again
filterRegisterInitializes(filtered, lint) ==
    register(filtered, lint, TRUE, FALSE)

\* filteredLinter.register(lint, false)
filterRegister(filtered, lint) == register(filtered, lint, FALSE, FALSE)

RECURSIVE filterLoop(_, _, _, _)
\* for _, name := range l.Names() { ... }, from the names still to visit;
\* acc is filteredLinter so far, the error that ended the loop, and the
\* lints whose Initialize() was invoked
filterLoop(linter, f, names, acc) ==
    IF names = << >> \/ acc.err # NoError THEN acc
    ELSE LET name == Head(names)
             lint == byName(linter, name)
         IN IF lint = NilLint
            THEN [acc EXCEPT !.err = panicNilDeref]
            ELSE IF ~keepLint(f, name, lint)
            THEN filterLoop(linter, f, Tail(names), acc)
            ELSE LET res == filterRegister(acc.linter, lint)
                 IN filterLoop(linter, f, Tail(names),
                               [linter |-> res.linter, err |-> res.err,
                                inits |-> IF res.initCalled
                                          THEN acc.inits \cup {lint}
                                          ELSE acc.inits])

\* Filter returning a copy of the receiver for the empty FilterOptions
filterEmptyCopies(heap, l) ==
    [heap |-> Append(heap, heap[l]), ret |-> Len(heap) + 1,
     err |-> NoError, inits |-> {}]

\* what Filter returns for the empty FilterOptions
filterEmpty(heap, l) ==
    [heap |-> heap, ret |-> l, err |-> NoError, inits |-> {}]

\* Filter putting the surviving lints in the receiver's own indexes and
\* returning the receiver
filterReturnsReceiver(heap, l, filtered, inits) ==
    [heap |-> [heap EXCEPT ![l] = filtered], ret |-> l, err |-> NoError,
     inits |-> inits]

\* return filteredLinter, nil: the linterImpl built by newLinter() is a
\* new object of the heap
filterReturns(heap, l, filtered, inits) ==
    [heap |-> Append(heap, filtered), ret |-> Len(heap) + 1,
     err |-> NoError, inits |-> inits]

\* return nil, err
filterFails(heap, err, inits) ==
    [heap |-> heap, ret |-> 0, err |-> err, inits |-> inits]

\* linterImpl.Filter on the linterImpl heap[l].  A successful call with
\* options returns the linterImpl it built, which becomes a new object
\* of the heap; ret = 0 is a nil Linter.  inits is the set of lints
\* whose Initialize() the call invoked.
Filter(heap, l, opts) ==
    IF Empty(opts) THEN filterEmpty(heap, l)
    ELSE
    LET sourceExcludes == sourceListToMap(opts.ExcludeSources)
        sourceIncludes == sourceListToMap(opts.IncludeSources)
        nameExcludes == lintNamesToMap(heap[l], opts.ExcludeNames)
        nameIncludes == lintNamesToMap(heap[l], opts.IncludeNames)
    IN  IF nameExcludes.err # NoError
        THEN filterFails(heap, nameExcludes.err, {})
        ELSE IF nameIncludes.err # NoError
        THEN filterFails(heap, nameIncludes.err, {})
        ELSE IF /\ opts.NameFilter # NilRegexp
                /\ (Cardinality(nameExcludes.map) # 0
                    \/ Cardinality(nameIncludes.map) # 0)
        THEN filterFails(heap, errNameFilterConflict, {})
        ELSE LET f == [opts |-> opts,
                       sourceExcludes |-> sourceExcludes,
                       sourceIncludes |-> sourceIncludes,
                       nameExcludes |-> nameExcludes.map,
                       nameIncludes |-> nameIncludes.map]
                 res == filterLoop(heap[l], f, Names(heap[l]),
                                   [linter |-> newLinter, err |-> NoError,
                                    inits |-> {}])
             IN IF res.err # NoError
                THEN filterFails(heap, res.err, res.inits)
                ELSE filterReturns(heap, l, res.linter, res.inits)

(***************************************************************************)
(* LintStatus, LintResult and ResultSet (lint/resultset.go).  A            *)
(* *LintResult is << >> for nil and <<s>> for a pointer to a result        *)
(* with Status s.  A nil map reads like an empty one and AddResult         *)
(* allocates it, so both are the empty function.                           *)
(***************************************************************************)
\* LintStatus, in increasing order
Reserved == 0
Pass == 1
Notice == 2
Warn == 3
Error == 4
Fatal == 5
NA == 6
LintStatus == {Reserved, Pass, Notice, Warn, Error, Fatal, NA}

NilResult == << >>
LintResult(s) == <<s>>
LintResults == {NilResult} \cup {LintResult(s) : s \in LintStatus}
StatusOf(res) == res[1]

resultSetVersion == 4

\* newResultSet, called when the clock reads now
newResultSet(now) ==
    [Version |-> resultSetVersion, NoticesPresent |-> FALSE,
     WarningsPresent |-> FALSE, ErrorsPresent |-> FALSE,
     FatalsPresent |-> FALSE, Results |-> << >>,
     LintStartTimestamp |-> now, LintEndTimestamp |-> 0]

\* a switch that sets the flag of the status and clears the other three
setPresentOnly(rs, status) ==
    IF status \in {Notice, Warn, Error, Fatal}
    THEN [rs EXCEPT !.NoticesPresent = (status = Notice),
                    !.WarningsPresent = (status = Warn),
                    !.ErrorsPresent = (status = Error),
                    !.FatalsPresent = (status = Fatal)]
    ELSE rs

\* the switch of AddResult
setPresent(rs, status) ==
    CASE status = Notice -> [rs EXCEPT !.NoticesPresent = TRUE]
      [] status = Warn   -> [rs EXCEPT !.WarningsPresent = TRUE]
      [] status = Error  -> [rs EXCEPT !.ErrorsPresent = TRUE]
      [] status = Fatal  -> [rs EXCEPT !.FatalsPresent = TRUE]
      [] OTHER           -> rs

\* ResultSet.AddResult
AddResult(rs, lintName, result) ==
    LET stored == [rs EXCEPT !.Results = MapPut(@, lintName, result)]
    IN IF result # NilResult
       THEN setPresent(stored, StatusOf(result))
       ELSE stored

\* Above keeping the entries at the threshold as well
aboveInclusive(res, status) == StatusOf(res) >= status

\* the test of Above: res.Status > status
aboveStatus(res, status) == StatusOf(res) > status

\* ResultSet.Above on a Results map.  res.Status dereferences every entry
\* of the map, so one nil entry makes the call panic.
Above(results, status) ==
    IF \E name \in DOMAIN results : results[name] = NilResult
    THEN [panics |-> TRUE, ret |-> << >>]
    ELSE [panics |-> FALSE,
          ret |-> [name \in {n \in DOMAIN results :
                               aboveStatus(results[n], status)}
                     |-> results[name]]]

(***************************************************************************)
(* The execution engine: Lint and LintByName.                              *)
(***************************************************************************)
\* the certificates linted
Certs == 1..3

\* Lint.Execute: what the rule of descriptor l does on cert.  It is a
\* function of the descriptor and the certificate; a rule returns a
\* result, returns nil, or panics.
Execute(l, cert) ==
    IF cert = 3 /\ l % 2 = 0
    THEN [panics |-> TRUE, result |-> NilResult]
    ELSE IF cert = 2 /\ l % 3 = 1
    THEN [panics |-> FALSE, result |-> NilResult]
    ELSE [panics |-> FALSE, result |-> LintResult((l * cert + 1) % 7)]

\* the loop of Lint over names[i..]: log is the sequence of descriptors
\* executed so far.  A panic of Execute leaves the loop and Lint.
RECURSIVE lintLoop(_, _, _, _, _)
lintLoop(linter, cert, names, rs, log) ==
    IF names = << >>
    THEN [panics |-> FALSE, rs |-> rs, log |-> log]
    ELSE LET lint == byName(linter, Head(names))
             out == Execute(lint, cert)
         IN IF out.panics
            THEN [panics |-> TRUE, rs |-> rs, log |-> Append(log, lint)]
            ELSE lintLoop(linter, cert, Tail(names),
                          AddResult(rs, Head(names), out.result),
                          Append(log, lint))

\* Lint that reuses the previous ResultSet instead of a new one
lintStartReuses(last, now) == [last EXCEPT !.LintStartTimestamp = now]

\* rs := newResultSet()
lintStart(last, now) == newResultSet(now)

\* rs.LintEndTimestamp = time.Now().Unix(); return rs
lintEnd(run, now) ==
    IF run.panics
    THEN run
    ELSE [run EXCEPT !.rs.LintEndTimestamp = now]

\* linterImpl.Lint, run without interference between the clock readings
\* start and end; last is the ResultSet of the call before
Lint(linter, cert, last, start, end) ==
    lintEnd(lintLoop(linter, cert, Names(linter), lintStart(last, start),
                     << >>), end)

\* linterImpl.LintByName
LintByName(linter, lintName, cert, start, end) ==
    LET lint == byName(linter, lintName)
        rs == newResultSet(start)
    IN IF lint = NilLint
       THEN lintEnd([panics |-> FALSE, rs |-> rs, log |-> << >>], end)
       ELSE LET out == Execute(lint, cert)
            IN IF out.panics
               THEN [panics |-> TRUE, rs |-> rs, log |-> <<lint>>]
               ELSE lintEnd([panics |-> FALSE,
                             rs |-> AddResult(rs, lintName, out.result),
                             log |-> <<lint>>], end)

(***************************************************************************)
(* Slices.  linter.lintNames is a slice: a length and a backing array.     *)
(* Names() returns the slice, not a copy, so its caller reads the backing  *)
(* array the registry had when Names() ran.  append writes in place while  *)
(* the length is below the capacity and moves the slice to a new array of  *)
(* twice the capacity when it is not; sort.Strings sorts in place.  A      *)
(* backing array is identified by its capacity.                            *)
(***************************************************************************)
RECURSIVE growCap(_, _)
\* the capacity append grows a slice of capacity cap to, to hold n strings
growCap(cap, n) ==
    IF n <= cap THEN cap
    ELSE growCap(IF cap = 0 THEN 1 ELSE 2 * cap, n)

\* the capacity of a slice built from nil by n appends of one string
CapOf(n) == growCap(0, n)

\* the backing arrays after lintNames was assigned or sorted: names is in
\* the array of its capacity, the arrays left behind keep what they held
store(arrs, names) ==
    IF names = << >> THEN arrs ELSE MapPut(arrs, CapOf(Len(names)), names)

\* what Names() returns: the slice header of lintNames
NilSlice == [cap |-> 0, len |-> 0]
sliceOf(names) == [cap |-> CapOf(Len(names)), len |-> Len(names)]

\* names[i] for a slice obtained from Names(), read from its backing array
elemOf(arrs, slice, i) == arrs[slice.cap][i]

\* the strings of the slice as its holder reads them now
viewOf(arrs, slice) == [i \in 1..slice.len |-> elemOf(arrs, slice, i)]

(***************************************************************************)
(* State.                                                                  *)
(***************************************************************************)
VARIABLES
    \* the linterImpl objects; regs[1] is defaultLinter
    regs,
    \* initCalls[l]: how often l.Lint.Initialize() has been invoked
    initCalls,
    \* the last call made and what it returned
    op,
    \* the sync.RWMutex embedded in defaultLinter: the goroutine holding
    \* the write lock (0: none) and the goroutines holding a read lock
    lock,
    \* the goroutines that run register concurrently: where each one is
    \* in register, its arguments, its local `existing`, what it returned
    procs,
    \* a ResultSet that callers fill with AddResult, and the last call
    \* made on it
    rset,
    \* the last call of Lint or LintByName and what it returned
    call,
    \* the goroutines that call the other operations of defaultLinter
    \* concurrently: where each one is, its arguments and its locals
    gs,
    \* the backing arrays defaultLinter.lintNames has had, by capacity, as
    \* the goroutines' register calls wrote them
    arrays

\* the state of the result sets and of the execution engine
others == <<rset, call, gs, arrays>>

vars == <<regs, initCalls, op, lock, procs, others>>

Procs == 1..NProcs

NoProc ==
    [pc |-> "idle", lint |-> NilLint, initialize |-> FALSE,
     existing |-> NilLint, err |-> NoError]

NoOp ==
    [kind |-> "none", reg |-> 0, lint |-> NilLint, initialize |-> FALSE,
     initFails |-> FALSE, opts |-> NoOptions, err |-> NoError, ret |-> 0]

\* a ResultSet value with no fields set, and no call made on it yet
NoResultSet ==
    [rs |-> [newResultSet(0) EXCEPT !.Version = 0], kind |-> "none",
     name |-> StrEmpty, result |-> NilResult, status |-> Reserved,
     panics |-> FALSE, ret |-> << >>,
     before |-> [newResultSet(0) EXCEPT !.Version = 0]]

\* no call made yet.  first holds the first call of Lint made on the
\* registry firstLinter and what it returned (<< >>: no such call yet);
\* again says that the last call was a later Lint of the same certificate.
NoFirst == << >>

NoCall ==
    [kind |-> "none", linter |-> newLinter, name |-> StrEmpty, cert |-> 0,
     panics |-> FALSE, rs |-> newResultSet(0), log |-> << >>,
     first |-> NoFirst, firstLinter |-> newLinter, again |-> FALSE]

\* a goroutine that has not called yet
NoCaller ==
    [kind |-> "none", pc |-> "idle", at |-> "none", opts |-> NoOptions,
     cert |-> 0, name |-> StrEmpty, i |-> 0, names |-> NilSlice,
     nameExcludes |-> {}, nameIncludes |-> {}, filtered |-> newLinter,
     rs |-> newResultSet(0), ret |-> << >>, err |-> NoError,
     before |-> {}, after |-> {}]

Init ==
    /\ regs = <<newLinter>>
    /\ initCalls = [l \in Lints |-> 0]
    /\ op = NoOp
    /\ lock = [writer |-> 0, readers |-> {}]
    /\ procs = [p \in Procs |-> NoProc]
    /\ rset = NoResultSet
    /\ call = NoCall
    /\ gs = [p \in Procs |-> NoCaller]
    /\ arrays = << >>

\* no call is in progress: the last result has been taken by its caller
Idle == op.kind = "none"

\* The caller takes the result of its call; the next call can start.
Return ==
    /\ ~Idle
    /\ op' = NoOp
    /\ UNCHANGED <<others, regs, initCalls, lock, procs>>

\* A caller runs register(l, initialize) on linterImpl r.
Register(r, l, initialize, initFails) ==
    /\ Idle
    /\ (initialize /\ l # NilLint) => initCalls[l] < MaxInit
    /\ LET res == register(regs[r], l, initialize, initFails)
       IN /\ regs' = [regs EXCEPT ![r] = res.linter]
          /\ initCalls' = IF res.initCalled
                          THEN [initCalls EXCEPT ![l] = @ + 1]
                          ELSE initCalls
          /\ op' = [NoOp EXCEPT !.kind = "register", !.reg = r, !.lint = l,
                                !.initialize = initialize,
                                !.initFails = initFails, !.err = res.err]
          /\ UNCHANGED <<others, lock, procs>>

\* A caller runs Filter(opts) on linterImpl r.
DoFilter(r, opts) ==
    /\ Idle
    /\ Len(regs) < MaxRegs
    /\ LET res == Filter(regs, r, opts)
       IN /\ regs' = res.heap
          /\ initCalls' = [l \in Lints |->
                             IF l \in res.inits
                             THEN initCalls[l] + 1 ELSE initCalls[l]]
          /\ op' = [NoOp EXCEPT !.kind = "Filter", !.reg = r, !.opts = opts,
                                !.err = res.err, !.ret = res.ret]
          /\ UNCHANGED <<others, lock, procs>>

\* Callers register any descriptor, valid or not, into defaultLinter.
Next ==
    \/ \E l \in LintArgs, initialize \in BOOLEAN :
          \E initFails \in (IF initialize THEN BOOLEAN ELSE {FALSE}) :
             Register(1, l, initialize, initFails)
    \/ Return

Spec == Init /\ [][Next]_vars

\* the descriptors register accepts
ValidLints ==
    {l \in Lints : LintPool[l].Lint # NilImpl /\ NameOf(l) # StrEmpty}

\* RegisterLint: a lint package registers its descriptor into
\* defaultLinter; the Initialize() hooks of these descriptors succeed.
RegisterLint(l) == Register(1, l, TRUE, FALSE)

\* A caller adds a descriptor to a linter Filter returned, the way Filter
\* itself does (initialize = false).
RegisterFiltered(r, l) == r # 1 /\ Register(r, l, FALSE, FALSE)

NextFilter ==
    \/ \E l \in ValidLints : RegisterLint(l)
    \/ \E r \in DOMAIN regs, l \in ValidLints : RegisterFiltered(r, l)
    \/ \E r \in DOMAIN regs, opts \in FilterOptions : DoFilter(r, opts)
    \/ Return

SpecFilter == Init /\ [][NextFilter]_vars


(***************************************************************************)
(* register called from several goroutines on defaultLinter (regs[1]),     *)
(* statement by statement.  Each goroutine makes one call.                 *)
(***************************************************************************)
\* sync.RWMutex: RLock needs no writer, Lock needs no writer and no reader
CanRLock == lock.writer = 0
CanLock == lock.writer = 0 /\ lock.readers = {}

Returns(p, e) == [procs EXCEPT ![p].pc = "returned", ![p].err = e]
Goto(p, label) == [procs EXCEPT ![p].pc = label]

\* the call, and the three argument checks, which read no shared state
CallRegister(p, l, initialize) ==
    /\ procs[p].pc = "idle"
    /\ LET called == [procs EXCEPT ![p].lint = l,
                                   ![p].initialize = initialize]
       IN procs' =
            IF l = NilLint
            THEN [called EXCEPT ![p].pc = "returned", ![p].err = errNilLint]
            ELSE IF LintPool[l].Lint = NilImpl
            THEN [called EXCEPT ![p].pc = "returned",
                                ![p].err = errNilLintPtr]
            ELSE IF NameOf(l) = StrEmpty
            THEN [called EXCEPT ![p].pc = "returned",
                                ![p].err = errEmptyName]
            ELSE [called EXCEPT ![p].pc = "byName"]
    /\ UNCHANGED <<others, regs, initCalls, op, lock>>

\* byName: l.RLock()
ByNameRLock(p) ==
    /\ procs[p].pc = "byName"
    /\ CanRLock
    /\ lock' = [lock EXCEPT !.readers = @ \cup {p}]
    /\ procs' = Goto(p, "byNameRead")
    /\ UNCHANGED <<others, regs, initCalls, op>>

\* byName returning without l.RUnlock()
ByNameReadKeepsLock(p) ==
    /\ procs[p].pc = "byNameRead"
    /\ procs' = [procs EXCEPT
                   ![p].existing = byName(regs[1], NameOf(procs[p].lint)),
                   ![p].pc = "checked"]
    /\ UNCHANGED <<others, regs, initCalls, op, lock>>

\* byName: return l.lintsByName[name], with the deferred l.RUnlock()
ByNameRead(p) ==
    /\ procs[p].pc = "byNameRead"
    /\ lock' = [lock EXCEPT !.readers = @ \ {p}]
    /\ procs' = [procs EXCEPT
                   ![p].existing = byName(regs[1], NameOf(procs[p].lint)),
                   ![p].pc = "checked"]
    /\ UNCHANGED <<others, regs, initCalls, op>>

\* if existing != nil { return &errDuplicateName{...} }
CheckExisting(p) ==
    /\ procs[p].pc = "checked"
    /\ procs' = IF procs[p].existing # NilLint
                THEN Returns(p, errDuplicateName)
                ELSE IF procs[p].initialize
                THEN Goto(p, "initialize")
                ELSE Goto(p, "lock")
    /\ UNCHANGED <<others, regs, initCalls, op, lock>>

\* l.Lint.Initialize(), which may return an error
Initialize(p, initFails) ==
    /\ procs[p].pc = "initialize"
    /\ initCalls' = [initCalls EXCEPT ![procs[p].lint] = @ + 1]
    /\ procs' = IF initFails THEN Returns(p, errBadInit) ELSE Goto(p, "lock")
    /\ UNCHANGED <<others, regs, op, lock>>

\* register entering its critical section without linter.Lock()
WLockSkipped(p) ==
    /\ procs[p].pc = "lock"
    /\ procs' = Goto(p, "appendName")
    /\ UNCHANGED <<others, regs, initCalls, op, lock>>

\* linter.Lock()
WLock(p) ==
    /\ procs[p].pc = "lock"
    /\ CanLock
    /\ lock' = [lock EXCEPT !.writer = p]
    /\ procs' = Goto(p, "appendName")
    /\ UNCHANGED <<others, regs, initCalls, op>>

\* one statement of the critical section
Locked(p, label, next, linter) ==
    /\ procs[p].pc = label
    /\ regs' = [regs EXCEPT ![1] = linter]
    /\ arrays' = store(arrays, linter.lintNames)
    /\ procs' = Goto(p, next)
    /\ UNCHANGED <<rset, call, gs, initCalls, op, lock>>

AppendName(p) ==
    Locked(p, "appendName", "putByName", appendName(regs[1], procs[p].lint))

PutByName(p) ==
    Locked(p, "putByName", "appendBySource",
           putByName(regs[1], procs[p].lint))

AppendBySource(p) ==
    Locked(p, "appendBySource", "sortNames",
           appendBySource(regs[1], procs[p].lint))

SortNames(p) ==
    Locked(p, "sortNames", "unlock", sortNames(regs[1]))

\* return nil, with the deferred linter.Unlock()
WUnlock(p) ==
    /\ procs[p].pc = "unlock"
    /\ lock' = [lock EXCEPT !.writer = 0]
    /\ procs' = Returns(p, NoError)
    /\ UNCHANGED <<others, regs, initCalls, op>>

NextConc ==
    \/ \E p \in Procs, l \in LintArgs, initialize \in BOOLEAN :
          CallRegister(p, l, initialize)
    \/ \E p \in Procs : ByNameRLock(p)
    \/ \E p \in Procs : ByNameRead(p)
    \/ \E p \in Procs : CheckExisting(p)
    \/ \E p \in Procs, initFails \in BOOLEAN : Initialize(p, initFails)
    \/ \E p \in Procs : WLock(p)
    \/ \E p \in Procs : AppendName(p)
    \/ \E p \in Procs : PutByName(p)
    \/ \E p \in Procs : AppendBySource(p)
    \/ \E p \in Procs : SortNames(p)
    \/ \E p \in Procs : WUnlock(p)

SpecConc == Init /\ [][NextConc]_vars

(***************************************************************************)
(* Goroutines calling the operations of defaultLinter concurrently,        *)
(* statement by statement as far as the lock and the shared indexes go.    *)
(* Each goroutine makes one call.  defaultLinter holds the lints that      *)
(* were registered before the goroutines start.  sort.Strings is one       *)
(* step, and the clock is not read (all timestamps are 0).                 *)
(***************************************************************************)
\* the descriptors registered before the goroutines start, in the order
\* their RegisterLint calls ran
Preregistered == <<2, 7, 1>>

RECURSIVE preregister(_, _)
\* defaultLinter and the backing arrays of its lintNames after RegisterLint
\* of lints[1..k]
preregister(lints, k) ==
    IF k = 0 THEN [linter |-> newLinter, arrays |-> << >>]
    ELSE LET sofar == preregister(lints, k - 1)
             linter == registerLocked(sofar.linter, lints[k])
         IN [linter |-> linter,
             arrays |-> store(sofar.arrays, linter.lintNames)]

InitOps ==
    /\ \E k \in 0..Len(Preregistered) :
          /\ regs = <<preregister(Preregistered, k).linter>>
          /\ arrays = preregister(Preregistered, k).arrays
          /\ initCalls = [l \in Lints |->
                            IF \E j \in 1..k : Preregistered[j] = l
                            THEN 1 ELSE 0]
    /\ op = NoOp
    /\ lock = [writer |-> 0, readers |-> {}]
    /\ procs = [p \in Procs |-> NoProc]
    /\ rset = NoResultSet
    /\ call = NoCall
    /\ gs = [p \in Procs |-> NoCaller]

\* what the goroutines call the operations with
OpsLintArgs == {NilLint, 3, 4}
OpsNames == {StrA}
OpsCerts == {1, 3}
OpsOptions ==
    {NoOptions,
     [NoOptions EXCEPT !.ExcludeSources = <<"RFC5280">>],
     [NoOptions EXCEPT !.IncludeNames = <<StrA>>],
     [NoOptions EXCEPT !.ExcludeNames = <<StrSpA>>]}

\* the goroutine has not made its call yet
Free(p) == procs[p].pc = "idle" /\ gs[p].pc = "idle"

\* the names defaultLinter has a descriptor for
NamesNow == DOMAIN regs[1].lintsByName

\* the locals of a call of operation kind that starts now, about to take
\* the read lock at the place at
called(kind, at) ==
    [NoCaller EXCEPT !.kind = kind, !.pc = "rlock", !.at = at,
                     !.before = NamesNow]

\* return ret, err
returned(g, ret, err) == [g EXCEPT !.pc = "returned", !.ret = ret, !.err = err]

\* a panic leaves the call
panicked(g) == [g EXCEPT !.pc = "panicked", !.err = panicNilDeref]

\* the goroutine's locals become g; a call that ends notes the names
\* registered then
Locals(p, g) ==
    gs' = [gs EXCEPT ![p] = IF g.pc \in {"returned", "panicked"}
                            THEN [g EXCEPT !.after = NamesNow]
                            ELSE g]

\* a goroutine starts a call that reads the registry
Call(p, g) ==
    /\ Free(p)
    /\ Locals(p, g)
    /\ UNCHANGED <<regs, initCalls, op, lock, procs, rset, call, arrays>>

\* l.RLock()
RLock(p) ==
    /\ gs[p].pc = "rlock"
    /\ CanRLock
    /\ lock' = [lock EXCEPT !.readers = @ \cup {p}]
    /\ gs' = [gs EXCEPT ![p].pc = "read"]
    /\ UNCHANGED <<regs, initCalls, op, procs, rset, call, arrays>>

\* the read made under the read lock at the place at of operation kind,
\* the deferred l.RUnlock(), and the statements up to the next l.RLock()
Read(p, kind, at, g) ==
    /\ gs[p].kind = kind
    /\ gs[p].at = at
    /\ gs[p].pc = "read"
    /\ lock' = [lock EXCEPT !.readers = @ \ {p}]
    /\ Locals(p, g)
    /\ UNCHANGED <<regs, initCalls, op, procs, rset, call, arrays>>

\* register(l, initialize)
GoRegister(p, l, initialize) == Free(p) /\ CallRegister(p, l, initialize)

\* byName(name)
GoByName(p, name) == Call(p, [called("byName", "lookup") EXCEPT !.name = name])

ByNameReturn(p) ==
    Read(p, "byName", "lookup",
         returned(gs[p], <<byName(regs[1], gs[p].name)>>, NoError))

\* Names()
GoNames(p) == Call(p, called("Names", "names"))

NamesReturn(p) ==
    Read(p, "Names", "names",
         returned(gs[p], sliceOf(Names(regs[1])), NoError))

\* Sources()
GoSources(p) == Call(p, called("Sources", "sources"))

SourcesReturn(p) ==
    Read(p, "Sources", "sources",
         returned(gs[p], SourcesOf(regs[1]), NoError))

\* Filter: if opts.NameFilter != nil && (...) { return nil, err }, and on
\* to l.Names()
filterConflict(g) ==
    IF /\ g.opts.NameFilter # NilRegexp
       /\ (g.nameExcludes # {} \/ g.nameIncludes # {})
    THEN returned(g, << >>, errNameFilterConflict)
    ELSE [g EXCEPT !.at = "names", !.pc = "rlock"]

\* Filter: the loop of lintNamesToMap(opts.IncludeNames)
filterIncludes(g) ==
    IF g.i <= Len(g.opts.IncludeNames)
    THEN [g EXCEPT !.at = "incl", !.pc = "rlock",
                   !.name = TrimSpace(g.opts.IncludeNames[g.i])]
    ELSE filterConflict(g)

\* Filter: the loop of lintNamesToMap(opts.ExcludeNames)
filterExcludes(g) ==
    IF g.i <= Len(g.opts.ExcludeNames)
    THEN [g EXCEPT !.at = "excl", !.pc = "rlock",
                   !.name = TrimSpace(g.opts.ExcludeNames[g.i])]
    ELSE filterIncludes([g EXCEPT !.i = 1])

\* Filter: for _, name := range names, at index g.i: the loop ends and
\* Filter returns filteredLinter, or it reads names[i] from the backing
\* array and goes on to l.byName(name)
filterNext(g, arrs) ==
    IF g.i > g.names.len
    THEN returned(g, <<g.filtered>>, NoError)
    ELSE [g EXCEPT !.at = "loop", !.pc = "rlock",
                   !.name = elemOf(arrs, g.names, g.i)]

\* the maps Filter tests a lint with
testsOf(g) ==
    [opts |-> g.opts,
     sourceExcludes |-> sourceListToMap(g.opts.ExcludeSources),
     sourceIncludes |-> sourceListToMap(g.opts.IncludeSources),
     nameExcludes |-> g.nameExcludes,
     nameIncludes |-> g.nameIncludes]

\* Filter: the body of the loop for the lint byName returned
filterBody(g, lint, arrs) ==
    IF lint = NilLint THEN panicked(g)
    ELSE IF ~keepLint(testsOf(g), g.name, lint)
    THEN filterNext([g EXCEPT !.i = @ + 1], arrs)
    ELSE LET res == filterRegister(g.filtered, lint)
         IN IF res.err # NoError
            THEN returned(g, << >>, res.err)
            ELSE filterNext([g EXCEPT !.filtered = res.linter,
                                      !.i = @ + 1], arrs)

\* Filter(opts)
GoFilter(p, opts) ==
    Call(p, IF Empty(opts)
            THEN returned([called("Filter", "none") EXCEPT !.opts = opts],
                          <<regs[1]>>, NoError)
            ELSE filterExcludes([called("Filter", "excl") EXCEPT
                                    !.opts = opts, !.i = 1]))

\* lintNamesToMap(opts.ExcludeNames): l.byName(n) == nil ?
FilterExclude(p) ==
    Read(p, "Filter", "excl",
         IF byName(regs[1], gs[p].name) = NilLint
         THEN returned(gs[p], << >>, errUnknownLintName)
         ELSE filterExcludes([gs[p] EXCEPT !.nameExcludes = @ \cup {gs[p].name},
                                           !.i = @ + 1]))

\* lintNamesToMap(opts.IncludeNames): l.byName(n) == nil ?
FilterInclude(p) ==
    Read(p, "Filter", "incl",
         IF byName(regs[1], gs[p].name) = NilLint
         THEN returned(gs[p], << >>, errUnknownLintName)
         ELSE filterIncludes([gs[p] EXCEPT !.nameIncludes = @ \cup {gs[p].name},
                                           !.i = @ + 1]))

\* range l.Names()
FilterNames(p) ==
    Read(p, "Filter", "names",
         filterNext([gs[p] EXCEPT !.names = sliceOf(Names(regs[1])),
                                  !.i = 1], arrays))

\* lint := l.byName(name) and the rest of the loop body
FilterLint(p) ==
    Read(p, "Filter", "loop",
         filterBody(gs[p], byName(regs[1], gs[p].name), arrays))

\* Lint: for _, name := range names, at index g.i
lintNext(g, arrs) ==
    IF g.i > g.names.len
    THEN returned(g, <<g.rs>>, NoError)
    ELSE [g EXCEPT !.at = "loop", !.pc = "rlock",
                   !.name = elemOf(arrs, g.names, g.i)]

\* rs.AddResult(name, lint.Execute(cert)) for the lint byName returned
lintBody(g, lint) ==
    IF lint = NilLint THEN panicked(g)
    ELSE LET out == Execute(lint, g.cert)
         IN IF out.panics
            THEN panicked(g)
            ELSE [g EXCEPT !.rs = AddResult(@, g.name, out.result),
                           !.i = @ + 1]

\* Lint(cert)
GoLint(p, cert) == Call(p, [called("Lint", "names") EXCEPT !.cert = cert])

\* range l.Names()
LintNamesRead(p) ==
    Read(p, "Lint", "names",
         lintNext([gs[p] EXCEPT !.names = sliceOf(Names(regs[1])),
                                !.i = 1], arrays))

\* l.byName(name).Execute(cert) and rs.AddResult
LintExecute(p) ==
    Read(p, "Lint", "loop",
         LET g == lintBody(gs[p], byName(regs[1], gs[p].name))
         IN IF g.pc = "panicked" THEN g ELSE lintNext(g, arrays))

\* LintByName(lintName, cert)
GoLintByName(p, lintName, cert) ==
    Call(p, [called("LintByName", "lookup") EXCEPT !.name = lintName,
                                                  !.cert = cert])

\* if lint := l.byName(lintName); lint != nil { rs.AddResult(...) }
LintByNameExecute(p) ==
    Read(p, "LintByName", "lookup",
         LET lint == byName(regs[1], gs[p].name)
             g == IF lint = NilLint THEN gs[p] ELSE lintBody(gs[p], lint)
         IN IF g.pc = "panicked" THEN g ELSE returned(g, <<g.rs>>, NoError))

\* the steps of goroutine p inside register
RegisterStep(p) ==
    \/ ByNameRLock(p)
    \/ ByNameRead(p)
    \/ CheckExisting(p)
    \/ \E initFails \in BOOLEAN : Initialize(p, initFails)
    \/ WLock(p)
    \/ AppendName(p)
    \/ PutByName(p)
    \/ AppendBySource(p)
    \/ SortNames(p)
    \/ WUnlock(p)

\* the steps of goroutine p inside a reading operation
ReadStep(p) ==
    \/ RLock(p)
    \/ ByNameReturn(p)
    \/ NamesReturn(p)
    \/ SourcesReturn(p)
    \/ FilterExclude(p)
    \/ FilterInclude(p)
    \/ FilterNames(p)
    \/ FilterLint(p)
    \/ LintNamesRead(p)
    \/ LintExecute(p)
    \/ LintByNameExecute(p)

NextOps ==
    \/ \E p \in Procs, l \in OpsLintArgs, initialize \in BOOLEAN :
          GoRegister(p, l, initialize)
    \/ \E p \in Procs, name \in OpsNames : GoByName(p, name)
    \/ \E p \in Procs : GoNames(p)
    \/ \E p \in Procs : GoSources(p)
    \/ \E p \in Procs, opts \in OpsOptions : GoFilter(p, opts)
    \/ \E p \in Procs, cert \in OpsCerts : GoLint(p, cert)
    \/ \E p \in Procs, name \in OpsNames, cert \in OpsCerts :
          GoLintByName(p, name, cert)
    \/ \E p \in Procs : RegisterStep(p)
    \/ \E p \in Procs : ReadStep(p)

SpecOps == InitOps /\ [][NextOps]_vars

\* The Go scheduler runs every goroutine that can take a step: a call that
\* has started keeps taking its steps.
SpecOpsFair ==
    SpecOps /\ \A p \in Procs : WF_vars(RegisterStep(p) \/ ReadStep(p))

(***************************************************************************)
(* Callers of a ResultSet: AddResult and Above, in any order.              *)
(***************************************************************************)
\* the lint names results are stored under
KeyNames == {StrA, StrB}

\* rs.AddResult(lintName, result)
DoAddResult(lintName, result) ==
    /\ rset' = [rset EXCEPT !.rs = AddResult(rset.rs, lintName, result),
                            !.kind = "AddResult", !.name = lintName,
                            !.result = result, !.before = rset.rs,
                            !.panics = FALSE, !.ret = << >>]
    /\ UNCHANGED <<regs, initCalls, op, lock, procs, call, gs, arrays>>

\* rs.Above(status)
DoAbove(status) ==
    /\ LET res == Above(rset.rs.Results, status)
       IN rset' = [rset EXCEPT !.kind = "Above", !.status = status,
                               !.before = rset.rs, !.panics = res.panics,
                               !.ret = res.ret]
    /\ UNCHANGED <<regs, initCalls, op, lock, procs, call, gs, arrays>>

NextResults ==
    \/ \E lintName \in KeyNames, result \in LintResults :
          DoAddResult(lintName, result)
    \/ \E status \in LintStatus : DoAbove(status)

SpecResults == Init /\ [][NextResults]_vars

(***************************************************************************)
(* Callers of the execution engine on defaultLinter, with no call of       *)
(* register in progress.                                                   *)
(***************************************************************************)
\* time.Now().Unix() at the start and at the end of a call
Times == 0..MaxTime

\* l.Lint(cert)
DoLint(cert, start, end) ==
    /\ Idle
    /\ LET res == Lint(regs[1], cert, call.rs, start, end)
           known == IF call.firstLinter = regs[1] THEN call.first ELSE NoFirst
           ret == [cert |-> cert, panics |-> res.panics,
                   rs |-> [res.rs EXCEPT !.LintEndTimestamp = 0]]
       IN call' = [kind |-> "Lint", linter |-> regs[1], name |-> StrEmpty,
                   cert |-> cert, panics |-> res.panics, rs |-> res.rs,
                   log |-> res.log,
                   first |-> IF known = NoFirst THEN <<ret>> ELSE known,
                   firstLinter |-> regs[1],
                   again |-> known # NoFirst /\ known[1].cert = cert]
    /\ UNCHANGED <<regs, initCalls, op, lock, procs, rset, gs, arrays>>

\* l.LintByName(lintName, cert)
DoLintByName(lintName, cert, start, end) ==
    /\ Idle
    /\ LET res == LintByName(regs[1], lintName, cert, start, end)
       IN call' = [call EXCEPT !.kind = "LintByName", !.linter = regs[1],
                               !.name = lintName, !.cert = cert,
                               !.panics = res.panics, !.rs = res.rs,
                               !.log = res.log, !.again = FALSE]
    /\ UNCHANGED <<regs, initCalls, op, lock, procs, rset, gs, arrays>>

\* the names LintByName is asked for
LintNames == {NameOf(l) : l \in ValidLints} \cup {StrC}

NextLint ==
    \/ \E l \in ValidLints : RegisterLint(l)
    \/ Return
    \/ \E cert \in Certs, start \in Times :
          \E end \in {t \in Times : t >= start} : DoLint(cert, start, end)
    \/ \E lintName \in LintNames, cert \in Certs, start \in Times :
          \E end \in {t \in Times : t >= start} :
             DoLintByName(lintName, cert, start, end)

SpecLint == Init /\ [][NextLint]_vars

(***************************************************************************)
(* Properties.                                                             *)
(***************************************************************************)
\* strictly ascending: sorted, and no string twice
IsSorted(s) == \A i \in 1..(Len(s) - 1) : StrLess(s[i], s[i + 1])

\* the descriptors filed in the provenance index, and those in the name map
BySourceLints(linter) ==
    UNION {Range(linter.lintsBySource[src]) : src \in DOMAIN linter.lintsBySource}
ByNameLints(linter) ==
    {linter.lintsByName[n] : n \in DOMAIN linter.lintsByName}

\* the three indexes agree
Consistent(linter) ==
    /\ Range(linter.lintNames) = DOMAIN linter.lintsByName
    /\ \A n \in DOMAIN linter.lintsByName : NameOf(linter.lintsByName[n]) = n
    /\ BySourceLints(linter) = ByNameLints(linter)
    /\ \A src \in DOMAIN linter.lintsBySource :
          \A i \in DOMAIN linter.lintsBySource[src] :
             /\ SourceOf(linter.lintsBySource[src][i]) = src
             /\ \A j \in DOMAIN linter.lintsBySource[src] :
                   linter.lintsBySource[src][i] = linter.lintsBySource[src][j]
                      => i = j

RegistryInvariant(linter) == IsSorted(linter.lintNames) /\ Consistent(linter)

\* C1: registering a valid descriptor whose name is not yet registered
\* (its Initialize() hook, if run, succeeding) succeeds, and Names()
\* afterwards is the strictly sorted list of the names registered before
\* plus the new one, each once.
C1_RegisterKeepsNamesSorted ==
    [][(/\ op'.kind = "register"
        /\ op'.lint \in ValidLints
        /\ ~(op'.initialize /\ op'.initFails)
        /\ NameOf(op'.lint) \notin Range(Names(regs[op'.reg])))
       => (/\ op'.err = NoError
           /\ IsSorted(Names(regs'[op'.reg]))
           /\ Len(Names(regs'[op'.reg])) = Len(Names(regs[op'.reg])) + 1
           /\ Range(Names(regs'[op'.reg]))
                = Range(Names(regs[op'.reg])) \cup {NameOf(op'.lint)})]_vars

\* C1 witness: a registration succeeded whose name sorts before a name
\* registered earlier, so the sort moved it.
C1_Witness ==
    /\ op.kind = "register"
    /\ op.err = NoError
    /\ Len(Names(regs[op.reg])) >= 2
    /\ Names(regs[op.reg])[Len(Names(regs[op.reg]))] # NameOf(op.lint)

\* C2: registering a valid descriptor whose name is already registered
\* returns errDuplicateName and leaves the registry (names, provenance
\* index, the descriptor found under the name) as it was.
C2_DuplicateRejected ==
    [][(/\ op'.kind = "register"
        /\ op'.lint \in ValidLints
        /\ NameOf(op'.lint) \in Range(Names(regs[op'.reg])))
       => (/\ op'.err = errDuplicateName
           /\ regs' = regs
           /\ byName(regs'[op'.reg], NameOf(op'.lint))
                = byName(regs[op'.reg], NameOf(op'.lint)))]_vars

\* C2 witness: a different descriptor with a registered name was
\* rejected, and the first one is still the one found under the name.
C2_Witness ==
    /\ op.kind = "register"
    /\ op.err = errDuplicateName
    /\ byName(regs[op.reg], NameOf(op.lint)) \in ValidLints
    /\ byName(regs[op.reg], NameOf(op.lint)) # op.lint

\* how often x occurs in the sequence s
Count(s, x) == Cardinality({i \in DOMAIN s : s[i] = x})

\* how many entries of the provenance index are descriptors named n
CountBySource(linter, n) ==
    Cardinality(UNION {
        {<<src, i>> : i \in {j \in DOMAIN linter.lintsBySource[src] :
                                NameOf(linter.lintsBySource[src][j]) = n}} :
        src \in DOMAIN linter.lintsBySource})

\* the goroutines whose register call passed the argument checks with a
\* descriptor named n
Callers(n) ==
    {p \in Procs : /\ procs[p].pc # "idle"
                   /\ procs[p].lint \in ValidLints
                   /\ NameOf(procs[p].lint) = n}

\* C3: when the concurrent register calls for one name have all
\* returned (leaving aside calls whose Initialize() failed), exactly one
\* returned nil and every other one errDuplicateName; the name is once
\* in lintNames and once in lintsBySource, and byName finds the
\* descriptor of the successful call.
C3_ConcurrentRegisterSafe ==
    \A l \in ValidLints :
       LET n == NameOf(l)
           done == {p \in Callers(n) : procs[p].err # errBadInit}
           won == {p \in done : procs[p].err = NoError}
       IN (/\ done # {}
           /\ \A p \in Callers(n) : procs[p].pc = "returned")
          => (/\ Cardinality(won) = 1
              /\ \A p \in done \ won : procs[p].err = errDuplicateName
              /\ Count(Names(regs[1]), n) = 1
              /\ CountBySource(regs[1], n) = 1
              /\ \A p \in won : byName(regs[1], n) = procs[p].lint)

\* every register call made so far that passed the argument checks
\* carries a name of its own
DistinctCalls ==
    \A p, q \in Procs :
       (/\ p # q
        /\ procs[p].pc # "idle" /\ procs[q].pc # "idle"
        /\ procs[p].lint \in ValidLints /\ procs[q].lint \in ValidLints)
       => NameOf(procs[p].lint) # NameOf(procs[q].lint)

\* C4: whenever the write lock is free, and the register calls made so
\* far carry distinct names, the three indexes agree: the names of
\* lintNames are the keys of lintsByName, and lintsBySource lists exactly
\* the descriptors of lintsByName, each under its own source.
C4_IndexesAgreeOutsideLock ==
    (lock.writer = 0 /\ DistinctCalls) => Consistent(regs[1])

\* C4 witness: one register has completed and another, with a different
\* name, holds a read lock inside byName: a reader is looking at the
\* indexes after a registration.
C4_Witness ==
    /\ lock.writer = 0
    /\ DistinctCalls
    /\ \E p, q \in Procs :
          /\ procs[p].pc = "returned" /\ procs[p].err = NoError
          /\ procs[q].pc = "byNameRead"
          /\ q \in lock.readers
          /\ Len(Names(regs[1])) = 1

\* the names registered in a linter
Registered(linter) == Range(Names(linter))

\* the strings of a name list after strings.TrimSpace
Trimmed(list) == {TrimSpace(list[i]) : i \in DOMAIN list}

\* NameFilter is not combined with a name list
NoConflict(opts) ==
    ~(/\ opts.NameFilter # NilRegexp
      /\ (opts.IncludeNames # << >> \/ opts.ExcludeNames # << >>))

\* the five tests for the registered name n, the name lists being the
\* sets include and exclude
PassesTests(linter, opts, include, exclude, n) ==
    /\ SourceOf(byName(linter, n)) \notin Range(opts.ExcludeSources)
    /\ (opts.IncludeSources = << >>
        \/ SourceOf(byName(linter, n)) \in Range(opts.IncludeSources))
    /\ (opts.NameFilter = NilRegexp \/ MatchString(opts.NameFilter, n))
    /\ n \notin exclude
    /\ (opts.IncludeNames = << >> \/ n \in include)

\* C5 as claimed: for non-empty criteria without conflict whose listed
\* names are all registered, Filter succeeds and the names of its result
\* are, in sorted order, exactly the source names that pass the five
\* tests, the name lists taken as given.
C5_FilterExactAsGiven ==
    (/\ op.kind = "Filter"
     /\ ~Empty(op.opts)
     /\ NoConflict(op.opts)
     /\ Range(op.opts.IncludeNames) \cup Range(op.opts.ExcludeNames)
           \subseteq Registered(regs[op.reg]))
    => (/\ op.err = NoError
        /\ IsSorted(Names(regs[op.ret]))
        /\ Registered(regs[op.ret])
             = {n \in Registered(regs[op.reg]) :
                  PassesTests(regs[op.reg], op.opts,
                              Range(op.opts.IncludeNames),
                              Range(op.opts.ExcludeNames), n)})

\* C5 as amended: the same, the entries of the two name lists being
\* compared after strings.TrimSpace.
C5_FilterExactTrimmed ==
    (/\ op.kind = "Filter"
     /\ ~Empty(op.opts)
     /\ NoConflict(op.opts)
     /\ Trimmed(op.opts.IncludeNames) \cup Trimmed(op.opts.ExcludeNames)
           \subseteq Registered(regs[op.reg]))
    => (/\ op.err = NoError
        /\ IsSorted(Names(regs[op.ret]))
        /\ Registered(regs[op.ret])
             = {n \in Registered(regs[op.reg]) :
                  PassesTests(regs[op.reg], op.opts,
                              Trimmed(op.opts.IncludeNames),
                              Trimmed(op.opts.ExcludeNames), n)})

\* C5 witness: Filter succeeded and dropped a registered name that
\* IncludeNames lists, because ExcludeSources holds its source, while it
\* kept another name.
C5_Witness ==
    /\ op.kind = "Filter"
    /\ op.err = NoError
    /\ \E n \in Trimmed(op.opts.IncludeNames) :
          /\ n \in Registered(regs[op.reg])
          /\ SourceOf(byName(regs[op.reg], n)) \in Range(op.opts.ExcludeSources)
          /\ n \notin Registered(regs[op.ret])
    /\ Len(Names(regs[op.reg])) >= 2

\* C6: Filter called with NameFilter set and a non-empty IncludeNames or
\* ExcludeNames returns the conflict error and a nil Linter, whatever
\* the lists and the other fields hold.
C6_ConflictAlwaysRejected ==
    (/\ op.kind = "Filter"
     /\ op.opts.NameFilter # NilRegexp
     /\ (op.opts.IncludeNames # << >> \/ op.opts.ExcludeNames # << >>))
    => (op.err = errNameFilterConflict /\ op.ret = 0)

\* C7 as claimed: Filter with a name list holding a string that, as
\* given, is no registered name returns the unknown-name error and a nil
\* Linter and changes no linter.
C7_UnknownNameAsGiven ==
    [][(/\ op'.kind = "Filter"
        /\ ~(Range(op'.opts.IncludeNames) \cup Range(op'.opts.ExcludeNames)
               \subseteq Registered(regs[op'.reg])))
       => (/\ op'.err = errUnknownLintName
           /\ op'.ret = 0
           /\ regs' = regs)]_vars

\* C7 as amended: Filter with a name list holding a string whose
\* strings.TrimSpace is no registered name returns the unknown-name
\* error and a nil Linter and changes no linter.
C7_UnknownNameTrimmed ==
    [][(/\ op'.kind = "Filter"
        /\ ~(Trimmed(op'.opts.IncludeNames) \cup Trimmed(op'.opts.ExcludeNames)
               \subseteq Registered(regs[op'.reg])))
       => (/\ op'.err = errUnknownLintName
           /\ op'.ret = 0
           /\ regs' = regs)]_vars

\* C7 witness: Filter on a linter with registered lints returned the
\* unknown-name error for a list entry that is not registered.
C7_Witness ==
    /\ op.kind = "Filter"
    /\ op.err = errUnknownLintName
    /\ op.ret = 0
    /\ Registered(regs[op.reg]) # {}
    /\ \E n \in Trimmed(op.opts.IncludeNames) \cup Trimmed(op.opts.ExcludeNames) :
          n \notin Registered(regs[op.reg])

\* C8: Filter with the empty FilterOptions returns, without error, the
\* linter it was called on: the same object, hence the same Names() now
\* and after any later registration.
C8_EmptyFilterReturnsReceiver ==
    (op.kind = "Filter" /\ Empty(op.opts))
    => (/\ op.err = NoError
        /\ op.ret = op.reg
        /\ Names(regs[op.ret]) = Names(regs[op.reg]))

\* C8 witness: Filter with the empty FilterOptions was called on a
\* linter that holds lints.
C8_Witness ==
    /\ op.kind = "Filter"
    /\ Empty(op.opts)
    /\ op.err = NoError
    /\ Len(Names(regs[op.reg])) >= 2

\* C9: Filter with non-empty FilterOptions changes no existing linter
\* and, when it succeeds, returns a linter that did not exist before and
\* satisfies the registry invariants; register changes only the linter
\* it is called on, so source and filtered linter do not affect each
\* other.
C9_FilteredLinterIndependent ==
    [][/\ (op'.kind = "Filter" /\ ~Empty(op'.opts))
          => (/\ \A r \in DOMAIN regs : regs'[r] = regs[r]
              /\ op'.err = NoError
                 => (/\ op'.ret \notin DOMAIN regs
                     /\ op'.ret \in DOMAIN regs'
                     /\ RegistryInvariant(regs'[op'.ret])))
       /\ op'.kind = "register"
          => (/\ DOMAIN regs' = DOMAIN regs
              /\ \A r \in DOMAIN regs \ {op'.reg} : regs'[r] = regs[r])]_vars

\* C9 witness: after Filter built linter 2, a lint was registered in the
\* source and is absent from linter 2, and linter 2 holds a lint.
C9_Witness ==
    /\ op.kind = "register"
    /\ op.reg = 1
    /\ op.err = NoError
    /\ Len(regs) >= 2
    /\ Names(regs[2]) # << >>
    /\ NameOf(op.lint) \notin Registered(regs[2])
    /\ RegistryInvariant(regs[2])

\* C10: Filter never invokes Initialize(): a Filter call leaves every
\* descriptor's count of Initialize() calls as it was, so each lint of
\* the linter it returns that RegisterLint put in defaultLinter has been
\* initialized exactly once.
C10_FilterNeverInitializes ==
    [][op'.kind = "Filter"
       => (/\ initCalls' = initCalls
           /\ op'.err = NoError
              => \A n \in Registered(regs'[op'.ret]) :
                    byName(regs'[1], n) = byName(regs'[op'.ret], n)
                       => initCalls'[byName(regs'[op'.ret], n)] = 1)]_vars

\* C10 witness: Filter, called with options on a linter that Filter had
\* built, returned a linter holding a lint that was initialized once.
C10_Witness ==
    /\ op.kind = "Filter"
    /\ ~Empty(op.opts)
    /\ op.err = NoError
    /\ op.reg >= 2
    /\ \E n \in Registered(regs[op.ret]) :
          /\ byName(regs[1], n) = byName(regs[op.ret], n)
          /\ initCalls[byName(regs[op.ret], n)] = 1

(***************************************************************************)
(* Result sets.                                                            *)
(***************************************************************************)
\* some entry of the map has exactly the status s
HasStatus(results, s) ==
    \E n \in DOMAIN results :
       results[n] # NilResult /\ StatusOf(results[n]) = s

\* each presence flag says whether an entry of that severity is present
FlagsExact(rs) ==
    /\ rs.NoticesPresent = HasStatus(rs.Results, Notice)
    /\ rs.WarningsPresent = HasStatus(rs.Results, Warn)
    /\ rs.ErrorsPresent = HasStatus(rs.Results, Error)
    /\ rs.FatalsPresent = HasStatus(rs.Results, Fatal)

\* C11: after every AddResult, whatever calls came before it (a second
\* insertion under a name already present included), each of the four
\* presence flags is true if and only if some entry now in the map has
\* exactly that severity.
C11_FlagsExactAfterAddResult ==
    rset.kind = "AddResult" => FlagsExact(rset.rs)

\* the entries of the map whose status is strictly greater than status
StrictlyAbove(results, status) ==
    {n \in DOMAIN results :
        results[n] # NilResult /\ StatusOf(results[n]) > status}

\* what above(threshold) has to return for the map
ExactlyAbove(results, status, ret) ==
    /\ DOMAIN ret = StrictlyAbove(results, status)
    /\ \A n \in DOMAIN ret : ret[n] = results[n]

\* C15: Above(threshold) on a ResultSet returns exactly the entries whose
\* status is strictly greater than the threshold, leaves the ResultSet
\* (map and flags) as it was, and applied again to the map it returned
\* gives that map back.
C15_AboveExactPureIdempotent ==
    rset.kind = "Above" =>
       /\ ~rset.panics
       /\ ExactlyAbove(rset.rs.Results, rset.status, rset.ret)
       /\ rset.rs = rset.before
       /\ Above(rset.ret, rset.status) = [panics |-> FALSE, ret |-> rset.ret]

\* The statement of C15 holds of every call of Above that returns: on the
\* result sets that hold no nil *LintResult.
AboveExactWhenItReturns ==
    (rset.kind = "Above" /\ ~rset.panics) =>
       /\ ExactlyAbove(rset.rs.Results, rset.status, rset.ret)
       /\ rset.rs = rset.before
       /\ Above(rset.ret, rset.status) = [panics |-> FALSE, ret |-> rset.ret]

\* the four presence flags and the status each one stands for
Flags == {"NoticesPresent", "WarningsPresent", "ErrorsPresent", "FatalsPresent"}

FlagOf(status) ==
    CASE status = Notice -> "NoticesPresent"
      [] status = Warn   -> "WarningsPresent"
      [] status = Error  -> "ErrorsPresent"
      [] status = Fatal  -> "FatalsPresent"

\* the result carries one of the four statuses that have a flag
Flagged(result) ==
    result # NilResult /\ StatusOf(result) \in {Notice, Warn, Error, Fatal}

\* C23: the presence flags are monotone under AddResult.  A flag that is
\* true before an insertion is true after it; an insertion with status
\* Notice, Warn, Error or Fatal makes the flag of that status true and
\* leaves the other three as they were; an insertion with any other
\* status or with a nil result leaves the four flags as they were; and
\* the entry is stored under its name.
C23_FlagsMonotoneUnderAddResult ==
    rset.kind = "AddResult" =>
       LET before == rset.before
           after == rset.rs
       IN /\ \A f \in Flags : before[f] => after[f]
          /\ Flagged(rset.result) =>
                /\ after[FlagOf(StatusOf(rset.result))]
                /\ \A f \in Flags \ {FlagOf(StatusOf(rset.result))} :
                      after[f] = before[f]
          /\ ~Flagged(rset.result) =>
                \A f \in Flags : after[f] = before[f]
          /\ rset.name \in DOMAIN after.Results
          /\ after.Results[rset.name] = rset.result
          /\ \A n \in DOMAIN before.Results \ {rset.name} :
                n \in DOMAIN after.Results
                /\ after.Results[n] = before.Results[n]

\* C23 witness: a nil result has replaced an Error entry while the Errors
\* and Warnings flags were set; both flags are still set.
C23_Witness ==
    /\ rset.kind = "AddResult"
    /\ rset.result = NilResult
    /\ rset.name \in DOMAIN rset.before.Results
    /\ rset.before.Results[rset.name] = LintResult(Error)
    /\ rset.before.ErrorsPresent /\ rset.before.WarningsPresent
    /\ rset.rs.ErrorsPresent /\ rset.rs.WarningsPresent
    /\ rset.rs.Results[rset.name] = NilResult

\* C24: Above(threshold) is total on every ResultSet that AddResult can
\* build, the ones holding a nil result included: every call of Above
\* returns a mapping and does not fail.
C24_AboveTotal ==
    rset.kind = "Above" => ~rset.panics

\* Above fails on exactly the result sets that hold a nil *LintResult.
AbovePanicsOnlyOnNil ==
    rset.kind = "Above" =>
       (rset.panics <=>
          \E n \in DOMAIN rset.rs.Results : rset.rs.Results[n] = NilResult)

(***************************************************************************)
(* The execution engine.                                                   *)
(***************************************************************************)
\* the descriptors registered in linter, in the order of Names()
InNameOrder(linter) ==
    [i \in DOMAIN Names(linter) |-> byName(linter, Names(linter)[i])]

\* the map holds, for every registered name, what its rule returned
VerdictOfEveryRule(linter, cert, results) ==
    /\ DOMAIN results = Registered(linter)
    /\ \A n \in DOMAIN results :
          results[n] = Execute(byName(linter, n), cert).result

\* some registered rule panics on the certificate
SomeRulePanics(linter, cert) ==
    \E n \in Registered(linter) : Execute(byName(linter, n), cert).panics

\* C12: Lint(cert), with no registration going on, executes every
\* registered rule exactly once, in strictly increasing name order, does
\* not stop early, and returns a ResultSet whose keys are Names() and whose
\* entry for each name is what that rule returned.
C12_LintRunsEveryRuleInOrder ==
    call.kind = "Lint" =>
       /\ ~call.panics
       /\ IsSorted(Names(call.linter))
       /\ call.log = InNameOrder(call.linter)
       /\ VerdictOfEveryRule(call.linter, call.cert, call.rs.Results)

\* The statement of C12 holds of every call of Lint in which no rule
\* panics.
LintRunsEveryRuleUnlessOnePanics ==
    (call.kind = "Lint" /\ ~SomeRulePanics(call.linter, call.cert)) =>
       /\ ~call.panics
       /\ IsSorted(Names(call.linter))
       /\ call.log = InNameOrder(call.linter)
       /\ VerdictOfEveryRule(call.linter, call.cert, call.rs.Results)

\* C13: when the execution function of a rule panics during Lint, Lint
\* still returns a ResultSet, and that ResultSet has, for every other
\* registered rule, an entry with that rule's own verdict.
C13_PanicIsolated ==
    (call.kind = "Lint" /\ SomeRulePanics(call.linter, call.cert)) =>
       /\ ~call.panics
       /\ \A n \in Registered(call.linter) :
             ~Execute(byName(call.linter, n), call.cert).panics =>
                /\ n \in DOMAIN call.rs.Results
                /\ call.rs.Results[n] =
                      Execute(byName(call.linter, n), call.cert).result

\* no presence flag is set
NoFlags(rs) ==
    /\ ~rs.NoticesPresent
    /\ ~rs.WarningsPresent
    /\ ~rs.ErrorsPresent
    /\ ~rs.FatalsPresent

\* what LintByName has to return
OneRuleRun(linter, name, cert, rs, log) ==
    IF name \in Registered(linter)
    THEN /\ DOMAIN rs.Results = {name}
         /\ rs.Results[name] = Execute(byName(linter, name), cert).result
         /\ log = <<byName(linter, name)>>
    ELSE /\ rs.Results = << >>
         /\ NoFlags(rs)
         /\ log = << >>

\* C14: LintByName(name, cert) returns a ResultSet that is empty with the
\* four flags false when name is not registered, and that holds exactly
\* one entry, under name, with that rule's verdict when it is; no rule but
\* the named one is executed.
C14_LintByNameRunsOneRule ==
    call.kind = "LintByName" =>
       /\ ~call.panics
       /\ OneRuleRun(call.linter, call.name, call.cert, call.rs, call.log)

\* The statement of C14 holds of every call of LintByName that returns,
\* and a call that does not return has executed the named rule only.
LintByNameRunsOneRuleUnlessItPanics ==
    call.kind = "LintByName" =>
       IF call.panics
       THEN call.log = <<byName(call.linter, call.name)>>
       ELSE OneRuleRun(call.linter, call.name, call.cert, call.rs, call.log)

\* the same keys, the same result under each key, the same four flags
SameResults(rs1, rs2) ==
    /\ rs1.Results = rs2.Results
    /\ rs1.NoticesPresent = rs2.NoticesPresent
    /\ rs1.WarningsPresent = rs2.WarningsPresent
    /\ rs1.ErrorsPresent = rs2.ErrorsPresent
    /\ rs1.FatalsPresent = rs2.FatalsPresent

InvalidDescriptor(l) ==
    IF l = NilLint THEN errNilLint
    ELSE IF LintPool[l].Lint = NilImpl THEN errNilLintPtr
    ELSE errEmptyName

\* C17: register of a descriptor that is nil, whose Lint is nil or whose
\* name is empty fails with the error of that case; Initialize() is not
\* invoked and the registry (names, map by name, provenance index) is as
\* it was.
C17_InvalidDescriptorRejected ==
    [][(/\ op'.kind = "register"
        /\ op'.lint \notin ValidLints)
       => (/\ op'.err = InvalidDescriptor(op'.lint)
           /\ op'.err \in {errNilLint, errNilLintPtr, errEmptyName}
           /\ initCalls' = initCalls
           /\ regs' = regs)]_vars

\* C17 witness: a descriptor with an empty name and a usable Initialize()
\* hook was refused, with initialize = true, by a registry holding a lint.
C17_Witness ==
    /\ op.kind = "register"
    /\ op.err = errEmptyName
    /\ op.initialize
    /\ LintPool[op.lint].Lint = Impl
    /\ initCalls[op.lint] = 0
    /\ Len(Names(regs[op.reg])) >= 1

\* C18: register(l, true) of a valid descriptor with an unregistered name
\* whose Initialize() returns an error fails with errBadInit and registers
\* nothing: the registry is as before, byName does not find the name, and
\* a register of any descriptor of that name that follows is not refused
\* as a duplicate.
C18_FailedInitRegistersNothing ==
    [][(/\ op'.kind = "register"
        /\ op'.lint \in ValidLints
        /\ op'.initialize /\ op'.initFails
        /\ NameOf(op'.lint) \notin Range(Names(regs[op'.reg])))
       => (/\ op'.err = errBadInit
           /\ initCalls'[op'.lint] = initCalls[op'.lint] + 1
           /\ regs' = regs
           /\ byName(regs'[op'.reg], NameOf(op'.lint)) = NilLint
           /\ \A l \in ValidLints :
                 NameOf(l) = NameOf(op'.lint) =>
                    register(regs'[op'.reg], l, FALSE, FALSE).err = NoError)]_vars

\* C18 witness: a descriptor whose Initialize() was invoked by a register
\* call that failed has afterwards been registered without error, into a
\* registry that holds another lint.
C18_Witness ==
    /\ op.kind = "register"
    /\ op.err = NoError
    /\ ~op.initialize
    /\ initCalls[op.lint] = 1
    /\ Len(Names(regs[op.reg])) >= 2

(***************************************************************************)
(* Operations running concurrently.                                        *)
(***************************************************************************)
\* no name has been put in lintNames twice
NoNameTwice ==
    Cardinality(Range(Names(regs[1]))) = Len(Names(regs[1]))

\* the call of goroutine p has ended
Ended(p) ==
    \/ procs[p].pc = "returned"
    \/ gs[p].pc \in {"returned", "panicked"}

\* the criteria of g are not empty, do not combine NameFilter with a name
\* list, and list only names that were registered when the call started
ValidCriteria(g) ==
    /\ ~Empty(g.opts)
    /\ NoConflict(g.opts)
    /\ Trimmed(g.opts.IncludeNames) \subseteq g.before
    /\ Trimmed(g.opts.ExcludeNames) \subseteq g.before

\* the names of linter are, sorted and each once, the names of the set
\* S that pass the five tests of the criteria
FilteredFrom(linter, opts, S) ==
    /\ IsSorted(Names(linter))
    /\ Registered(linter) =
          {n \in S : PassesTests(regs[1], opts, Trimmed(opts.IncludeNames),
                                 Trimmed(opts.ExcludeNames), n)}

\* C19: a Filter call with non-empty criteria that runs while other
\* goroutines call register returns without error, and the names of the
\* linter it returns are the five tests applied to the names the source
\* held at one moment of the call: a set between the names registered at
\* the start of the call and those registered at its return, none
\* missing, none added, none twice.  (Calls that put one name in
\* lintNames twice are left aside.)
C19_FilterIsOneSnapshot ==
    \A p \in Procs :
       (/\ gs[p].kind = "Filter"
        /\ gs[p].pc \in {"returned", "panicked"}
        /\ ValidCriteria(gs[p])
        /\ NoNameTwice)
       => (/\ gs[p].pc = "returned"
           /\ gs[p].err = NoError
           /\ \E S \in SUBSET gs[p].after :
                 /\ gs[p].before \subseteq S
                 /\ FilteredFrom(gs[p].ret[1], gs[p].opts, S))

\* neither lock is held
LockFree == lock.writer = 0 /\ lock.readers = {}

\* C20: with a fair scheduler (and hooks that terminate) every call of
\* register, byName, Names, Sources, Filter, Lint and LintByName that a
\* goroutine has started on defaultLinter ends, whatever the other
\* goroutines do, and whenever no call is in progress the lock is free,
\* after calls that returned an error too.
C20_EveryCallReturns ==
    /\ \A p \in Procs : ~Free(p) ~> Ended(p)
    /\ []((\A p \in Procs : Free(p) \/ Ended(p)) => LockFree)

\* C20 witness: all calls have ended and the lock is free, after a Filter
\* that returned an error and a register that succeeded while that Filter
\* was in progress.
C20_Witness ==
    /\ \A p \in Procs : Ended(p)
    /\ LockFree
    /\ \E p \in Procs : /\ gs[p].kind = "Filter"
                        /\ gs[p].pc = "returned"
                        /\ gs[p].err # NoError
                        /\ gs[p].before # gs[p].after

\* from one state to the next, linter keeps every name it had, and byName
\* returns for every name it had a descriptor for that same descriptor
KeepsRegistered(linter, next) ==
    /\ Registered(linter) \subseteq Registered(next)
    /\ DOMAIN linter.lintsByName \subseteq DOMAIN next.lintsByName
    /\ \A n \in DOMAIN linter.lintsByName :
          byName(next, n) = byName(linter, n)

\* C21: registration is append-only.  Whatever calls of register run on
\* defaultLinter, one after the other or interleaved, the set of its names
\* never shrinks, and a name that byName returns a descriptor for has that
\* same descriptor in every later state: no step removes or replaces a
\* registered rule.  (A descriptor is put in lintsByName inside a critical
\* section that ends before the next one starts, so the descriptor a step
\* replaces is one a lookup could return.)
C21_RegistrationAppendOnly ==
    [][KeepsRegistered(regs[1], regs'[1])]_vars

\* The statement of C21 holds of every linterImpl when the calls of
\* register and Filter run one after the other.
AppendOnlyWithoutInterleaving ==
    [][\A r \in DOMAIN regs : KeepsRegistered(regs[r], regs'[r])]_vars

\* the list the caller of Names() holds now: the slice it was handed,
\* read from its backing array
ListHeld(g) == viewOf(arrays, g.ret)

\* C22: the list Names() returned is a stable value.  Whatever register
\* calls complete or run after Names() returned, the list its caller
\* holds keeps its length, contents and order: it is, sorted and each name
\* once, the names registered when Names() returned; and a Lint that
\* returned has a result for each name registered when the call started
\* and for no name that was never registered.
C22_NamesListStable ==
    \A p \in Procs :
       /\ (gs[p].kind = "Names" /\ gs[p].pc = "returned") =>
             /\ IsSorted(ListHeld(gs[p]))
             /\ Range(ListHeld(gs[p])) = gs[p].after
       /\ (gs[p].kind = "Lint" /\ gs[p].pc = "returned") =>
             /\ gs[p].before \subseteq DOMAIN gs[p].rs.Results
             /\ DOMAIN gs[p].rs.Results \subseteq gs[p].after

\* The list Names() returned keeps its length, and it keeps its contents
\* and order until a later register call has appended a name.
NamesListStableUntilRegister ==
    \A p \in Procs :
       (gs[p].kind = "Names" /\ gs[p].pc = "returned") =>
          /\ Len(ListHeld(gs[p])) = Cardinality(gs[p].after)
          /\ NamesNow = gs[p].after =>
                /\ IsSorted(ListHeld(gs[p]))
                /\ Range(ListHeld(gs[p])) = gs[p].after

=============================================================================
